---------------------------- MODULE Spec2Model ----------------------------
(***************************************************************************)
(* A model of projects/hurricane_flow_field.py: the HurricaneFlowField     *)
(* class (velocity_field, generate_grid, arrow_path, generate_svg,         *)
(* save_svg) and main().                                                   *)
(*                                                                         *)
(* Python floats are modelled as decimal fixed-point numbers: the integer  *)
(* n stands for the real n / Scale.  Every product and quotient is rounded *)
(* to the nearest representable value, ties away from zero, so that        *)
(* arithmetic stays symmetric under negation as IEEE arithmetic is.        *)
(* math.sqrt(a*a + b*b) is taken of the exact sum of squares and           *)
(* truncated.  TLC's integers are 32 bits wide, so products and quotients  *)
(* are computed limb by limb (base Scale) and never overflow for           *)
(* magnitudes below 2^30.                                                  *)
(***************************************************************************)
EXTENDS Integers, Sequences, FiniteSets

(***************************************************************************)
(* Fixed-point arithmetic                                                  *)
(***************************************************************************)
Scale == 10 * 10 * 10

Abs(a) == IF a < 0 THEN -a ELSE a

Sign(a) == IF a < 0 THEN -1 ELSE 1

Max(a, b) == IF a >= b THEN a ELSE b

Min(a, b) == IF a <= b THEN a ELSE b

\* The real number n as a fixed-point value (Python's int -> float).
Float(n) == n * Scale

\* a * b for a, b >= 0 as the two-limb number <<q, rem>> = q * Scale + rem.
MulQR(a, b) ==
    LET ah == a \div Scale
        al == a % Scale
        bh == b \div Scale
        bl == b % Scale
        low == al * bl
    IN  <<ah * b + al * bh + (low \div Scale), low % Scale>>

\* Python's a * b on floats.
Mul(a, b) ==
    LET p == MulQR(Abs(a), Abs(b))
        mag == p[1] + (IF 2 * p[2] >= Scale THEN 1 ELSE 0)
    IN  Sign(a) * Sign(b) * mag

\* <<q, r>> with 2 * (c[1] * d + c[2]) = q * d + r and r < d, given c[2] < d.
Dbl(c, d) ==
    IF 2 * c[2] >= d THEN <<2 * c[1] + 1, 2 * c[2] - d>> ELSE <<2 * c[1], 2 * c[2]>>

\* The sum of two such pairs.
AddQR(c, e, d) ==
    IF c[2] + e[2] >= d THEN <<c[1] + e[1] + 1, c[2] + e[2] - d>>
    ELSE <<c[1] + e[1], c[2] + e[2]>>

\* 10 * c as a quotient and remainder by d.
Times10(c, d) == Dbl(AddQR(Dbl(Dbl(c, d), d), c, d), d)

\* Python's a / b on floats, for b # 0 (b = 0 raises: see the callers).
Div(a, b) ==
    LET n == Abs(a)
        d == Abs(b)
        c0 == <<n \div d, n % d>>
        c3 == Times10(Times10(Times10(c0, d), d), d)
        mag == c3[1] + (IF 2 * c3[2] >= d THEN 1 ELSE 0)
    IN  Sign(a) * Sign(b) * mag

\* r * r <= n for the two-limb number n.
SqLe(r, n) ==
    LET p == MulQR(r, r)
    IN  p[1] < n[1] \/ (p[1] = n[1] /\ p[2] <= n[2])

RECURSIVE SqrtHi(_, _)
SqrtHi(p, n) == IF SqLe(p, n) THEN SqrtHi(2 * p, n) ELSE p

RECURSIVE SqrtBisect(_, _, _)
SqrtBisect(lo, hi, n) ==
    IF hi - lo <= 1 THEN lo
    ELSE LET mid == (lo + hi) \div 2
         IN  IF SqLe(mid, n) THEN SqrtBisect(mid, hi, n) ELSE SqrtBisect(lo, mid, n)

\* a * a + b * b as a two-limb number.
SumSq(a, b) ==
    LET p == MulQR(Abs(a), Abs(a))
        q == MulQR(Abs(b), Abs(b))
    IN  <<p[1] + q[1] + ((p[2] + q[2]) \div Scale), (p[2] + q[2]) % Scale>>

\* Python's math.sqrt(a*a + b*b).
Hypot(a, b) ==
    LET n == SumSq(a, b)
        hi == SqrtHi(1, n)
    IN  SqrtBisect(hi \div 2, hi, n)

(***************************************************************************)
(* Literals of the source                                                  *)
(***************************************************************************)
\* 0.1: the dead zone of line 58 and the two spiral coefficients of lines 75-77.
Tenth == Scale \div 10

\* 0.01: the slowest flow arrow_path draws (line 115).
MinSpeed == Scale \div 100

\* 0.3 and 0.15: the arrow head's proportions (lines 130-131).
HeadLengthRatio == (3 * Scale) \div 10

HeadWidthRatio == (15 * Scale) \div 100

\* arrow_path's default arrow_length, 20.0.
DefaultArrowLength == 20

\* main()'s arguments.
MainWidth == 800

MainHeight == 600

MainCenterX == 400

MainCenterY == 300

MainMaxWindSpeed == 60

MainEyeRadius == 40

MainSpacing == 25

\* arrow_scale=1.2
MainArrowScale == (12 * Scale) \div 10

(***************************************************************************)
(* class HurricaneFlowField                                                *)
(***************************************************************************)
\* An optional argument: <<>> is None, <<v>> is the value v.
None == <<>>

Some(v) == <<v>>

\* __init__: the object's fields.
HurricaneFlowField(width, height, center_x, center_y, max_wind_speed, eye_radius) ==
    [width |-> width,
     height |-> height,
     center_x |-> IF center_x # None THEN center_x[1] ELSE Float(width) \div 2,
     center_y |-> IF center_y # None THEN center_y[1] ELSE Float(height) \div 2,
     max_wind_speed |-> max_wind_speed,
     eye_radius |-> eye_radius]

\* What a call gives back: a value, or the exception it raised.
Returned(vx, vy) == [exc |-> "none", vx |-> vx, vy |-> vy]

RaisedZeroDivision == [exc |-> "ZeroDivisionError", vx |-> 0, vy |-> 0]

\* r of velocity_field.
Radius(s, x, y) == Hypot(x - s.center_x, y - s.center_y)

\* Inside the eye: omega = max_wind_speed / eye_radius.
OmegaInside(s) == Div(s.max_wind_speed, s.eye_radius)

\* Mutant: decay with the inverse radius, not its square.
OmegaOutside_InverseRadius(s, r) == Div(Mul(s.max_wind_speed, s.eye_radius), r)

\* Outside the eye: omega = (max_wind_speed * eye_radius) / (r * r).
OmegaOutside(s, r) == Div(Mul(s.max_wind_speed, s.eye_radius), Mul(r, r))

Omega(s, r) == IF r < s.eye_radius THEN OmegaInside(s) ELSE OmegaOutside(s, r)

\* radial_factor = 0.1 * (1.0 - eye_radius / max(r, eye_radius))
RadialFactor(s, r) == Mul(Tenth, Float(1) - Div(s.eye_radius, Max(r, s.eye_radius)))

\* The divisors velocity_field divides by at distance r: a zero one raises.
FieldDivisors(s, r) ==
    {r, Max(r, s.eye_radius)} \cup (IF r < s.eye_radius THEN {s.eye_radius} ELSE {Mul(r, r)})

\* Mutant: the spiral term is left out of vy.
FieldBody_NoSpiralY(s, dx, dy, r) ==
    IF 0 \in FieldDivisors(s, r) THEN RaisedZeroDivision
    ELSE LET omega == Omega(s, r)
             radial_factor == RadialFactor(s, r)
             vx == Div(Mul(-omega, dy), r)
                   + Mul(Mul(Mul(radial_factor, Div(-dx, r)), s.max_wind_speed), Tenth)
             vy == Div(Mul(omega, dx), r)
         IN  Returned(vx, vy)

\* The body of velocity_field after the dead-zone test (lines 61-79).
FieldBody(s, dx, dy, r) ==
    IF 0 \in FieldDivisors(s, r) THEN RaisedZeroDivision
    ELSE LET omega == Omega(s, r)
             radial_factor == RadialFactor(s, r)
             vx == Div(Mul(-omega, dy), r)
                   + Mul(Mul(Mul(radial_factor, Div(-dx, r)), s.max_wind_speed), Tenth)
             vy == Div(Mul(omega, dx), r)
                   + Mul(Mul(Mul(radial_factor, Div(-dy, r)), s.max_wind_speed), Tenth)
         IN  Returned(vx, vy)

\* Mutant: the dead zone taken as 0.01, the threshold of arrow_path.
velocity_field_SmallDeadZone(s, x, y) ==
    LET dx == x - s.center_x
        dy == y - s.center_y
        r == Hypot(dx, dy)
    IN  IF r < MinSpeed THEN Returned(0, 0) ELSE FieldBody(s, dx, dy, r)

\* Mutant: no dead zone at all.
velocity_field_NoDeadZone(s, x, y) ==
    LET dx == x - s.center_x
        dy == y - s.center_y
    IN  FieldBody(s, dx, dy, Hypot(dx, dy))

velocity_field(s, x, y) ==
    LET dx == x - s.center_x
        dy == y - s.center_y
        r == Hypot(dx, dy)
    IN  IF r < Tenth THEN Returned(0, 0) ELSE FieldBody(s, dx, dy, r)

\* Mutant: the stop value is included.
RECURSIVE RangeInclusive(_, _, _)
RangeInclusive(start, stop, step) ==
    IF start > stop THEN <<>> ELSE <<start>> \o RangeInclusive(start + step, stop, step)

\* range(start, stop, step) for step > 0.
RECURSIVE Range(_, _, _)
Range(start, stop, step) ==
    IF start >= stop THEN <<>> ELSE <<start>> \o Range(start + step, stop, step)

\* The inner loop of generate_grid: one column of points.
Column(x, ys) == [j \in 1..Len(ys) |-> <<x, ys[j]>>]

RECURSIVE Columns(_, _)
Columns(xs, ys) ==
    IF xs = <<>> THEN <<>> ELSE Column(Head(xs), ys) \o Columns(Tail(xs), ys)

\* Mutant: the loops exchanged, y outside and x inside.
Row(xs, y) == [i \in 1..Len(xs) |-> <<xs[i], y>>]

RECURSIVE Rows(_, _)
Rows(xs, ys) ==
    IF ys = <<>> THEN <<>> ELSE Row(xs, Head(ys)) \o Rows(xs, Tail(ys))

generate_grid_RowMajor(s, spacing) ==
    Rows(Range(spacing, s.width, spacing), Range(spacing, s.height, spacing))

generate_grid(s, spacing) ==
    Columns(Range(spacing, s.width, spacing), Range(spacing, s.height, spacing))

\* f"{v:.2f}": the number of hundredths nearest to v.
Fmt2(v) ==
    LET u == Scale \div 100
    IN  Sign(v) * ((Abs(v) + (u \div 2)) \div u)

\* The path string: its commands, each with its two formatted coordinates.
PathText(x, y, tip_x, tip_y, left_x, left_y, right_x, right_y) ==
    << <<"M", Fmt2(x), Fmt2(y)>>, <<"L", Fmt2(tip_x), Fmt2(tip_y)>>,
       <<"M", Fmt2(left_x), Fmt2(left_y)>>, <<"L", Fmt2(tip_x), Fmt2(tip_y)>>,
       <<"L", Fmt2(right_x), Fmt2(right_y)>> >>

\* arrow_path's result: the string (<<>> is ""), the exception if it raised,
\* and its locals speed, length and tip for the claims about the geometry.
NoArrow(speed) ==
    [exc |-> "none", path |-> <<>>, speed |-> speed, length |-> 0, tip_x |-> 0, tip_y |-> 0]

ArrowRaised(speed) ==
    [exc |-> "ZeroDivisionError", path |-> <<>>, speed |-> speed, length |-> 0,
     tip_x |-> 0, tip_y |-> 0]

\* Mutant: the length is not clipped.
ArrowLength_Unclipped(s, speed, scale, arrow_length) ==
    Mul(Mul(arrow_length, scale), Div(speed, s.max_wind_speed))

\* length = arrow_length * scale * min(speed / max_wind_speed, 1.0)
ArrowLength(s, speed, scale, arrow_length) ==
    Mul(Mul(arrow_length, scale), Min(Div(speed, s.max_wind_speed), Float(1)))

\* Lines 118-152 of arrow_path.
ArrowBody(s, x, y, vx, vy, speed, scale, arrow_length) ==
    IF s.max_wind_speed = 0 THEN ArrowRaised(speed)
    ELSE LET length == ArrowLength(s, speed, scale, arrow_length)
             vx_norm == Div(vx, speed)
             vy_norm == Div(vy, speed)
             tip_x == x + Mul(vx_norm, length)
             tip_y == y + Mul(vy_norm, length)
             head_length == Mul(length, HeadLengthRatio)
             head_width == Mul(length, HeadWidthRatio)
             perp_x == -vy_norm
             perp_y == vx_norm
             head_base_x == tip_x - Mul(vx_norm, head_length)
             head_base_y == tip_y - Mul(vy_norm, head_length)
             left_x == head_base_x + Mul(perp_x, head_width)
             left_y == head_base_y + Mul(perp_y, head_width)
             right_x == head_base_x - Mul(perp_x, head_width)
             right_y == head_base_y - Mul(perp_y, head_width)
         IN  [exc |-> "none",
              path |-> PathText(x, y, tip_x, tip_y, left_x, left_y, right_x, right_y),
              speed |-> speed, length |-> length, tip_x |-> tip_x, tip_y |-> tip_y]

arrow_path(s, x, y, vx, vy, scale, arrow_length) ==
    LET speed == Hypot(vx, vy)
    IN  IF speed < MinSpeed THEN NoArrow(speed)
        ELSE ArrowBody(s, x, y, vx, vy, speed, scale, arrow_length)

\* The document's head (lines 169-197): the svg element, the style sheet, the
\* background rectangle, the eye circle and the opening of the arrow group.
SvgHeader(s) ==
    << [tag |-> "svg", a |-> <<s.width, s.height>>],
       [tag |-> "style", a |-> <<>>],
       [tag |-> "rect", a |-> <<s.width, s.height>>],
       [tag |-> "circle", a |-> <<Fmt2(s.center_x), Fmt2(s.center_y), Fmt2(s.eye_radius)>>],
       [tag |-> "g", a |-> <<>>] >>

\* '    <path d="..." class="flow-arrow"/>\n'
PathElement(path) == [tag |-> "path", a |-> path]

\* '  </g>\n</svg>'
SvgFooter == << [tag |-> "/g", a |-> <<>>], [tag |-> "/svg", a |-> <<>>] >>

(***************************************************************************)
(* State                                                                   *)
(***************************************************************************)
VARIABLES
    self,          \* the HurricaneFlowField object's fields
    args,          \* spacing and arrow_scale given to save_svg / generate_svg
    arrow_length,  \* arrow_path's arrow_length argument
    pc,            \* where control is
    grid_points,   \* generate_svg's grid_points
    k,             \* the index in grid_points of the loop's next point
    pt,            \* x, y of the last call of velocity_field / arrow_path
    vel,           \* what velocity_field last gave back
    prev,          \* the velocity sampled before the last quarter turn
    turns,         \* the quarter turns made about the center
    arrow,         \* what arrow_path last gave back
    svg,           \* the document built so far
    file,          \* the destination file
    stdout,        \* the lines printed
    exc            \* the exception that ended the run, or "none"

vars == <<self, args, arrow_length, pc, grid_points, k, pt, vel, prev, turns, arrow,
          svg, file, stdout, exc>>

(***************************************************************************)
(* Bounds of the inputs                                                    *)
(***************************************************************************)
MaxWidth == 4

MaxHeight == 4

MaxSpacing == 2

MaxOffset == 4

MaxTurns == 4

MaxSpeed == 3

WindSpeeds == {0, Float(3), Float(MainMaxWindSpeed)}

EyeRadii == {-(Scale \div 20), 0, Scale \div 2, Float(2)}

\* Where the eye is put: the default (None), or next to the grid point
\* (spacing, spacing), at a distance below and of exactly 0.1.
Centers(spacing) ==
    {<<None, None>>,
     <<Some(Float(spacing) + 50), Some(Float(spacing) + 70)>>,
     <<Some(Float(spacing) + 60), Some(Float(spacing) + 80)>>}

\* The object main() builds, and the arguments it gives save_svg.
MainFlowField ==
    HurricaneFlowField(MainWidth, MainHeight, Some(Float(MainCenterX)),
                       Some(Float(MainCenterY)), Float(MainMaxWindSpeed),
                       Float(MainEyeRadius))

MainArgs == [spacing |-> MainSpacing, arrow_scale |-> MainArrowScale]

NoVelocity == Returned(0, 0)

AbsentFile == [open |-> FALSE, data |-> <<>>]

\* Everything but the inputs, before anything ran.
Idle ==
    /\ grid_points = <<>>
    /\ k = 0
    /\ vel = NoVelocity
    /\ prev = NoVelocity
    /\ turns = 0
    /\ arrow = NoArrow(0)
    /\ svg = <<>>
    /\ file = AbsentFile
    /\ stdout = <<>>
    /\ exc = "none"

(***************************************************************************)
(* main(): the object is built and save_svg is about to run                *)
(***************************************************************************)
Init ==
    /\ \/ self = MainFlowField /\ args = MainArgs
       \/ \E w \in 1..MaxWidth, h \in 1..MaxHeight, sp \in 1..MaxSpacing,
             m \in WindSpeeds, e \in EyeRadii :
             \E c \in Centers(sp) :
                 /\ self = HurricaneFlowField(w, h, c[1], c[2], m, e)
                 /\ args = [spacing |-> sp, arrow_scale |-> Float(1)]
    /\ arrow_length = Float(DefaultArrowLength)
    /\ pc = "save_svg"
    /\ pt = <<0, 0>>
    /\ Idle

\* generate_svg up to its loop (lines 168-200).
GenerateSvgHeader ==
    /\ pc = "save_svg"
    /\ svg' = SvgHeader(self)
    /\ grid_points' = generate_grid(self, args.spacing)
    /\ k' = 1
    /\ pc' = "loop"
    /\ UNCHANGED <<self, args, arrow_length, pt, vel, prev, turns, arrow, file, stdout, exc>>

\* Mutant: a path element for every grid point, empty or not.
EmitAlways(doc, path) == Append(doc, PathElement(path))

\* if arrow_path: svg += '<path .../>'
EmitArrow(doc, path) == IF path # <<>> THEN Append(doc, PathElement(path)) ELSE doc

\* One turn of the loop of generate_svg (lines 201-205); an exception of
\* velocity_field or arrow_path leaves generate_svg, save_svg and main.
LoopBody ==
    /\ pc = "loop"
    /\ k <= Len(grid_points)
    /\ LET x == Float(grid_points[k][1])
           y == Float(grid_points[k][2])
           v == velocity_field(self, x, y)
           a == IF v.exc = "none"
                THEN arrow_path(self, x, y, v.vx, v.vy, args.arrow_scale, arrow_length)
                ELSE arrow
           raised == IF v.exc # "none" THEN v.exc ELSE a.exc
       IN  /\ pt' = <<x, y>>
           /\ vel' = v
           /\ arrow' = a
           /\ IF raised # "none"
              THEN /\ exc' = raised
                   /\ pc' = "raised"
                   /\ UNCHANGED <<svg, k>>
              ELSE /\ svg' = EmitArrow(svg, a.path)
                   /\ k' = k + 1
                   /\ UNCHANGED <<exc, pc>>
    /\ UNCHANGED <<self, args, arrow_length, grid_points, prev, turns, file, stdout>>

\* The end of generate_svg (lines 207-211); save_svg holds svg_content.
CloseSvg ==
    /\ pc = "loop"
    /\ k > Len(grid_points)
    /\ svg' = svg \o SvgFooter
    /\ pc' = "open"
    /\ UNCHANGED <<self, args, arrow_length, grid_points, k, pt, vel, prev, turns, arrow,
                   file, stdout, exc>>

\* An OSError inside save_svg: nothing catches it, in save_svg or in main.
IOFailure ==
    /\ exc' = "OSError"
    /\ pc' = "raised"
    /\ UNCHANGED stdout

\* open(filename, 'w') creates or truncates the file.
OpenOk ==
    /\ pc = "open"
    /\ file' = [open |-> TRUE, data |-> <<>>]
    /\ pc' = "write"
    /\ UNCHANGED <<self, args, arrow_length, grid_points, k, pt, vel, prev, turns, arrow,
                   svg, stdout, exc>>

OpenFails ==
    /\ pc = "open"
    /\ IOFailure
    /\ UNCHANGED <<self, args, arrow_length, grid_points, k, pt, vel, prev, turns, arrow,
                   svg, file>>

\* f.write(svg_content)
WriteOk ==
    /\ pc = "write"
    /\ file' = [file EXCEPT !.data = svg]
    /\ pc' = "close"
    /\ UNCHANGED <<self, args, arrow_length, grid_points, k, pt, vel, prev, turns, arrow,
                   svg, stdout, exc>>

\* Mutant: the error of the write is caught and dropped.
WriteFailsSwallowed ==
    /\ pc = "write"
    /\ file' = [file EXCEPT !.open = FALSE]
    /\ pc' = "print_saved"
    /\ UNCHANGED <<self, args, arrow_length, grid_points, k, pt, vel, prev, turns, arrow,
                   svg, stdout, exc>>

\* The write fails: the with statement closes the file and the error goes on.
WriteFails ==
    /\ pc = "write"
    /\ file' = [file EXCEPT !.open = FALSE]
    /\ IOFailure
    /\ UNCHANGED <<self, args, arrow_length, grid_points, k, pt, vel, prev, turns, arrow,
                   svg>>

\* The end of the with statement closes the file.
CloseOk ==
    /\ pc = "close"
    /\ file' = [file EXCEPT !.open = FALSE]
    /\ pc' = "print_saved"
    /\ UNCHANGED <<self, args, arrow_length, grid_points, k, pt, vel, prev, turns, arrow,
                   svg, stdout, exc>>

\* Closing flushes what was written, and that may fail as well.
CloseFails ==
    /\ pc = "close"
    /\ file' = [file EXCEPT !.open = FALSE]
    /\ IOFailure
    /\ UNCHANGED <<self, args, arrow_length, grid_points, k, pt, vel, prev, turns, arrow,
                   svg>>

\* print(f"Flow field saved to {filename}")
PrintSaved ==
    /\ pc = "print_saved"
    /\ stdout' = Append(stdout, "saved")
    /\ pc' = "print_summary"
    /\ UNCHANGED <<self, args, arrow_length, grid_points, k, pt, vel, prev, turns, arrow,
                   svg, file, exc>>

\* main()'s six print calls after save_svg returned (lines 249-254).
PrintSummary ==
    /\ pc = "print_summary"
    /\ stdout' = stdout \o <<"complete", "Parameters:", "canvas", "center", "radius", "wind">>
    /\ pc' = "done"
    /\ UNCHANGED <<self, args, arrow_length, grid_points, k, pt, vel, prev, turns, arrow,
                   svg, file, exc>>

Next ==
    \/ GenerateSvgHeader
    \/ LoopBody
    \/ CloseSvg
    \/ OpenOk
    \/ OpenFails
    \/ WriteOk
    \/ WriteFails
    \/ CloseOk
    \/ CloseFails
    \/ PrintSaved
    \/ PrintSummary

Spec == Init /\ [][Next]_vars

(***************************************************************************)
(* velocity_field on its own: sampled at a point, then at the point a      *)
(* quarter turn further about the center, and so on                        *)
(***************************************************************************)
FieldConfigs ==
    {MainFlowField} \cup
    {HurricaneFlowField(MaxWidth, MaxHeight, None, None, m, e) : m \in WindSpeeds, e \in EyeRadii}

\* Offsets from the center: whole units, the neighbourhood of the dead zone's
\* edge, and the eye's edge with its two neighbours.
Offsets(s) ==
    {Float(i) : i \in (-MaxOffset)..MaxOffset}
    \cup {-80, -60, 50, 70, 99, 100}
    \cup (IF s.eye_radius > 0
          THEN {s.eye_radius - 1, s.eye_radius, s.eye_radius + 1, -s.eye_radius}
          ELSE {})

FieldInit ==
    /\ self \in FieldConfigs
    /\ args = [spacing |-> 1, arrow_scale |-> Float(1)]
    /\ arrow_length = Float(DefaultArrowLength)
    /\ pc = "probe"
    /\ \E dx \in Offsets(self), dy \in Offsets(self) :
           pt = <<self.center_x + dx, self.center_y + dy>>
    /\ Idle

\* vx, vy = self.velocity_field(x, y)
SampleField ==
    /\ pc = "probe"
    /\ vel' = velocity_field(self, pt[1], pt[2])
    /\ pc' = "probed"
    /\ UNCHANGED <<self, args, arrow_length, grid_points, k, pt, prev, turns, arrow, svg,
                   file, stdout, exc>>

\* The point a quarter turn further about the center.
Rotated(s, p) ==
    <<s.center_x - (p[2] - s.center_y), s.center_y + (p[1] - s.center_x)>>

QuarterTurn ==
    /\ pc = "probed"
    /\ turns < MaxTurns
    /\ prev' = vel
    /\ pt' = Rotated(self, pt)
    /\ turns' = turns + 1
    /\ pc' = "probe"
    /\ UNCHANGED <<self, args, arrow_length, grid_points, k, vel, arrow, svg, file, stdout,
                   exc>>

FieldNext == SampleField \/ QuarterTurn

FieldSpec == FieldInit /\ [][FieldNext]_vars

(***************************************************************************)
(* arrow_path on its own, for any velocity sample                          *)
(***************************************************************************)
\* Components of a velocity sample: halves up to MaxSpeed, the neighbourhood
\* of the 0.01 threshold, and one far beyond every max_wind_speed.
Components ==
    {i * (Scale \div 2) : i \in (-2 * MaxSpeed)..(2 * MaxSpeed)}
    \cup {-8, -6, 7, 10, Float(100)}

ArrowScales == {Scale \div 2, Float(1), MainArrowScale}

ArrowLengths == {Float(DefaultArrowLength), Float(5)}

ArrowInit ==
    /\ \E m \in (WindSpeeds \ {0}) \cup {Scale \div 2} :
           self = HurricaneFlowField(MaxWidth, MaxHeight, None, None, m, Float(2))
    /\ \E sc \in ArrowScales : args = [spacing |-> 1, arrow_scale |-> sc]
    /\ arrow_length \in ArrowLengths
    /\ pc = "arrow"
    /\ pt = <<self.center_x, self.center_y>>
    /\ grid_points = <<>>
    /\ k = 0
    /\ \E vx \in Components, vy \in Components : vel = Returned(vx, vy)
    /\ prev = NoVelocity
    /\ turns = 0
    /\ arrow = NoArrow(0)
    /\ svg = <<>>
    /\ file = AbsentFile
    /\ stdout = <<>>
    /\ exc = "none"

\* arrow_path(x, y, vx, vy, scale, arrow_length)
DrawArrow ==
    /\ pc = "arrow"
    /\ arrow' = arrow_path(self, pt[1], pt[2], vel.vx, vel.vy, args.arrow_scale, arrow_length)
    /\ exc' = arrow'.exc
    /\ pc' = IF arrow'.exc = "none" THEN "drawn" ELSE "raised"
    /\ UNCHANGED <<self, args, arrow_length, grid_points, k, pt, vel, prev, turns, svg,
                   file, stdout>>

ArrowNext == DrawArrow

ArrowSpec == ArrowInit /\ [][ArrowNext]_vars

(***************************************************************************)
(* Properties of the run of main() (Spec)                                  *)
(***************************************************************************)
\* The path elements of a document.
PathIndices(doc) == {i \in 1..Len(doc) : doc[i].tag = "path"}

NumPaths(doc) == Cardinality(PathIndices(doc))

\* The document holds a path element that starts at the point p.
HasPathAt(doc, p) ==
    \E i \in 1..Len(doc) :
        /\ doc[i].tag = "path"
        /\ doc[i].a # <<>>
        /\ doc[i].a[1] = <<"M", Fmt2(p[1]), Fmt2(p[2])>>

\* The point p lies at a distance below 0.1 from the center, in exact arithmetic.
NearCenter(s, p) ==
    LET dx == p[1] - s.center_x
        dy == p[2] - s.center_y
    IN  /\ Abs(dx) < Tenth
        /\ Abs(dy) < Tenth
        /\ dx * dx + dy * dy < Tenth * Tenth

\* generate_svg has returned.
AfterGenerate == pc \in {"open", "write", "close", "print_saved", "print_summary", "done"}
                 \/ (pc = "raised" /\ exc = "OSError")

\* A whole document: the head, then path elements only, then the closed group.
Complete(doc) ==
    /\ Len(doc) >= 7
    /\ doc[1] = [tag |-> "svg", a |-> <<self.width, self.height>>]
    /\ doc[3].tag = "rect"
    /\ doc[4].tag = "circle"
    /\ doc[5].tag = "g"
    /\ \A i \in 6..(Len(doc) - 2) : doc[i].tag = "path"
    /\ doc[Len(doc) - 1].tag = "/g"
    /\ doc[Len(doc)].tag = "/svg"

\* Offsets on both sides of the dead zone's edge.
NearOffsets == {-Tenth, -99, -70, -1, 0, 50, 71, 99, Tenth}

\* C1: a point at a distance below 0.1 from the center gets the velocity
\* (0.0, 0.0) exactly; a grid point that close to the center hence has speed 0,
\* the empty string from arrow_path and no path element in the document.
C1_DeadZone ==
    /\ (pc = "loop" /\ k = 1) =>
           \A dx \in NearOffsets, dy \in NearOffsets :
               NearCenter(self, <<self.center_x + dx, self.center_y + dy>>) =>
                   velocity_field(self, self.center_x + dx, self.center_y + dy)
                       = Returned(0, 0)
    /\ (k > 1 /\ NearCenter(self, pt)) =>
           /\ vel = Returned(0, 0)
           /\ arrow.speed = 0
           /\ arrow.path = <<>>
           /\ ~HasPathAt(svg, pt)

\* main()'s grid point (400, 300), which is the center, was passed over.
C1_Witness ==
    /\ self = MainFlowField
    /\ k > 1
    /\ pt = <<Float(MainCenterX), Float(MainCenterY)>>
    /\ NearCenter(self, pt)
    /\ vel = Returned(0, 0)
    /\ ~HasPathAt(svg, pt)

\* The points x in [spacing, stop) in steps of spacing.
Steps(spacing, stop) == {x \in spacing..(stop - 1) : x % spacing = 0}

\* C4 as stated: when generate_grid has returned, it has given floor((width - spacing) / spacing) *
\* floor((height - spacing) / spacing) points.
C4_FloorCount ==
    (pc = "loop" /\ k = 1) =>
        Len(grid_points) = ((self.width - args.spacing) \div args.spacing)
                           * ((self.height - args.spacing) \div args.spacing)

\* C4, amended: when generate_grid has returned, it has given floor((width - 1) / spacing) *
\* floor((height - 1) / spacing) points, each once: the points (x, y) with x in
\* [spacing, width) and y in [spacing, height) in steps of spacing; 713 points
\* for main()'s 800 x 600 canvas and spacing 25.
C4_GridPoints ==
    (pc = "loop" /\ k = 1) =>
        /\ Len(grid_points) = ((self.width - 1) \div args.spacing)
                              * ((self.height - 1) \div args.spacing)
        /\ {grid_points[i] : i \in 1..Len(grid_points)}
               = Steps(args.spacing, self.width) \X Steps(args.spacing, self.height)
        /\ (self = MainFlowField /\ args = MainArgs) => Len(grid_points) = 713

\* A grid was made for a canvas the spacing does not divide, where the count
\* differs from the floor of (width - spacing) / spacing.
C4_Witness ==
    /\ pc = "loop"
    /\ k = 1
    /\ self.width % args.spacing # 0
    /\ self.height % args.spacing # 0
    /\ Len(grid_points) > 0
    /\ Len(grid_points) # ((self.width - args.spacing) \div args.spacing)
                          * ((self.height - args.spacing) \div args.spacing)

\* C5: a grid point has a path element iff its speed is at least 0.01; there
\* is no empty path element, and never more path elements than grid points
\* visited.
C5_ArrowIffFastEnough ==
    (k > 1 /\ exc # "ZeroDivisionError") =>
        /\ HasPathAt(svg, pt) <=> Hypot(vel.vx, vel.vy) >= MinSpeed
        /\ \A i \in PathIndices(svg) : svg[i].a # <<>>
        /\ NumPaths(svg) <= k - 1
        /\ k - 1 <= Len(grid_points)
        /\ Len(svg) <= Len(SvgHeader(self)) + (k - 1) + Len(SvgFooter)

\* The point just visited is too slow and got no arrow, after points that got one.
C5_Witness ==
    /\ pc = "loop"
    /\ k > 1
    /\ NumPaths(svg) > 0
    /\ Hypot(vel.vx, vel.vy) < MinSpeed
    /\ ~HasPathAt(svg, pt)

\* C7: generate_svg never raises, whatever the eye radius, the canvas and the
\* wind speed; it returns a whole document, with no arrow when the canvas is
\* smaller than the spacing or max_wind_speed is 0.
C7_NeverFails ==
    /\ exc # "ZeroDivisionError"
    /\ pc = "raised" => exc = "OSError"
    /\ pc = "loop" => k <= Len(grid_points) + 1
    /\ AfterGenerate => Complete(svg)
    /\ (AfterGenerate /\ (self.width < args.spacing \/ self.height < args.spacing
                          \/ self.max_wind_speed = 0))
           => NumPaths(svg) = 0

\* A windless field over a grid of several points gave a whole, arrowless document.
C7_Witness ==
    /\ pc = "open"
    /\ self.max_wind_speed = 0
    /\ self.eye_radius <= 0
    /\ Len(grid_points) > 1
    /\ Complete(svg)
    /\ NumPaths(svg) = 0

\* Where a path element starts, in hundredths.
Origin(e) == <<e.a[1][2], e.a[1][3]>>

\* A point of the grid, in hundredths.
OnGrid(o) ==
    /\ o[1] % 100 = 0
    /\ o[2] % 100 = 0
    /\ (o[1] \div 100) % args.spacing = 0
    /\ (o[2] \div 100) % args.spacing = 0
    /\ args.spacing <= o[1] \div 100 /\ o[1] \div 100 < self.width
    /\ args.spacing <= o[2] \div 100 /\ o[2] \div 100 < self.height

\* x ascending, and y ascending within one x.
Before(o1, o2) == o1[1] < o2[1] \/ (o1[1] = o2[1] /\ o1[2] < o2[2])

\* C8: the document holds one background rectangle of the canvas's size, then
\* one eye circle, then the path elements, which follow one another in grid
\* order (x ascending, then y ascending) without repetition, each at a grid point.
C8_DocumentOrder ==
    Len(svg) > 0 =>
        /\ Len(svg) >= 5
        /\ svg[1].tag = "svg"
        /\ svg[3] = [tag |-> "rect", a |-> <<self.width, self.height>>]
        /\ svg[4] = [tag |-> "circle",
                     a |-> <<Fmt2(self.center_x), Fmt2(self.center_y), Fmt2(self.eye_radius)>>]
        /\ svg[5].tag = "g"
        /\ \A i \in 6..Len(svg) :
               /\ svg[i].tag \notin {"rect", "circle"}
               /\ svg[i].tag = "path" =>
                      /\ svg[i].a # <<>>
                      /\ OnGrid(Origin(svg[i]))
                      /\ svg[i - 1].tag \in {"g", "path"}
                      /\ svg[i - 1].tag = "path" => Before(Origin(svg[i - 1]), Origin(svg[i]))
        /\ AfterGenerate => Complete(svg)

\* main()'s document is finished, with its 712 arrows.
C8_Witness ==
    /\ pc = "done"
    /\ self = MainFlowField
    /\ NumPaths(svg) = 712
    /\ Complete(svg)

\* C9: an I/O failure in save_svg leaves save_svg and main with nothing printed;
\* whenever anything is printed, the file holds the whole document and is closed.
C9_IOFailureSurfaces ==
    /\ exc = "OSError" => (pc = "raised" /\ stdout = <<>>)
    /\ pc = "raised" => (exc # "none" /\ stdout = <<>>)
    /\ stdout # <<>> =>
           /\ exc = "none"
           /\ stdout[1] = "saved"
           /\ file = [open |-> FALSE, data |-> svg]
           /\ Complete(svg)
    /\ pc = "done" => Len(stdout) = 7

\* The write failed after the file was opened.
C9_Witness ==
    /\ pc = "raised"
    /\ exc = "OSError"
    /\ file = [open |-> FALSE, data |-> <<>>]
    /\ Complete(svg)
    /\ stdout = <<>>

(***************************************************************************)
(* Properties of velocity_field (FieldSpec)                                *)
(***************************************************************************)
\* The speed of a velocity sample.
SpeedOf(v) == Hypot(v.vx, v.vy)

\* The distance of the sampled point from the center.
SampleRadius == Radius(self, pt[1], pt[2])

\* The distance of the sampled point is a representable number.
ExactRadius ==
    MulQR(SampleRadius, SampleRadius) = SumSq(pt[1] - self.center_x, pt[2] - self.center_y)

\* What rounding may add to a speed: five thousandths.
SpeedTol == Scale \div 200

\* C10: a quarter turn of the sample point about the center turns the velocity
\* by a quarter turn, (vx, vy) to (-vy, vx), exactly; and the speed is that of
\* the point of the x axis at the same distance from the center.
C10_RotationalSymmetry ==
    pc = "probed" =>
        /\ turns > 0 => (vel.exc = prev.exc /\ vel.vx = -prev.vy /\ vel.vy = prev.vx)
        /\ ExactRadius =>
               Abs(SpeedOf(vel)
                   - SpeedOf(velocity_field(self, self.center_x + SampleRadius, self.center_y)))
                   <= SpeedTol

\* The sample was turned, and has a tangential and a spiral part.
C10_Witness ==
    /\ pc = "probed"
    /\ turns > 0
    /\ SampleRadius > self.eye_radius
    /\ self.eye_radius > 0
    /\ ExactRadius
    /\ prev.vx # 0 /\ prev.vy # 0
    /\ Abs(prev.vx) # Abs(prev.vy)
    /\ vel.vx = -prev.vy /\ vel.vy = prev.vx

\* C2 as stated: for 0.1 <= r <= eye_radius the speed is
\* max_wind_speed * r / eye_radius, up to rounding.
C2_SolidBodyRotation ==
    (pc = "probed" /\ Tenth <= SampleRadius /\ SampleRadius <= self.eye_radius) =>
        Abs(SpeedOf(vel) - Div(Mul(self.max_wind_speed, SampleRadius), self.eye_radius))
            <= SpeedTol

\* C3: on the eye's edge, r = eye_radius, the two formulas for omega agree and
\* the spiral term is zero, so the speed there (the outer branch) is the speed
\* just inside (the inner branch).
C3_EyeBoundaryContinuity ==
    (/\ pc = "probed"
     /\ self.eye_radius > Tenth
     /\ self.max_wind_speed > 0
     /\ ExactRadius
     /\ SampleRadius = self.eye_radius) =>
        /\ Abs(OmegaInside(self) - OmegaOutside(self, SampleRadius)) <= SpeedTol
        /\ RadialFactor(self, SampleRadius) = 0
        /\ Abs(SpeedOf(vel)
               - SpeedOf(velocity_field(self, self.center_x + self.eye_radius - 1,
                                        self.center_y)))
               <= SpeedTol

\* main()'s field was sampled at (400, 340), on the eye's edge.
C3_Witness ==
    /\ pc = "probed"
    /\ self = MainFlowField
    /\ pt = <<Float(MainCenterX), Float(MainCenterY + MainEyeRadius)>>
    /\ SampleRadius = self.eye_radius
    /\ SpeedOf(vel) > 0

(***************************************************************************)
(* Properties of arrow_path (ArrowSpec)                                    *)
(***************************************************************************)
\* The distance from the arrow's origin to its tip.
Shaft == Hypot(arrow.tip_x - pt[1], arrow.tip_y - pt[2])

\* What rounding may add to a length: four hundredths.
LengthTol == Scale \div 25

\* C6: for a sample of speed at least 0.01 the shaft is
\* arrow_length * scale * min(speed / max_wind_speed, 1.0) long, up to
\* rounding, and so never longer than arrow_length * scale.
C6_ShaftLength ==
    (pc = "drawn" /\ SpeedOf(vel) >= MinSpeed) =>
        /\ arrow.path # <<>>
        /\ Abs(Shaft - Mul(Mul(arrow_length, args.arrow_scale),
                           Min(Div(SpeedOf(vel), self.max_wind_speed), Float(1))))
               <= LengthTol
        /\ Shaft <= Mul(arrow_length, args.arrow_scale) + LengthTol

\* A sample faster than max_wind_speed got an arrow of the full length.
C6_Witness ==
    /\ pc = "drawn"
    /\ SpeedOf(vel) > 2 * self.max_wind_speed
    /\ arrow.path # <<>>
    /\ Shaft >= Mul(arrow_length, args.arrow_scale) - LengthTol
    /\ Shaft <= Mul(arrow_length, args.arrow_scale) + LengthTol

=============================================================================
